---- MODULE Spec2Model ----
(***************************************************************************)
(* Model of the Insiders changelog generator, scripts/update-data.mjs.     *)
(*                                                                         *)
(* One run of main() is modelled in three steps, split at the points where *)
(* the code passes from reading (arguments, state file, feed, skip check)  *)
(* to gathering (upstream calls, change collection, ceiling, narrative)    *)
(* to writing (page, release artifacts, state file, indexes).              *)
(*                                                                         *)
(* Marker ids are sequences of one-character strings, so that prefixes,    *)
(* trimming and shortSha are computed as the code computes them.  Builds   *)
(* are numbered in upstream order (a larger number is a newer build); the  *)
(* feed lists the ids of the newest FeedWindow builds, newest first.       *)
(***************************************************************************)
EXTENDS Integers, Sequences, FiniteSets, TLC

VARIABLES
    feed,       \* what the insiders commits feed returns now (newest first)
    stateFile,  \* data/insiders-state.json
    pages,      \* docs/builds/<slug>.md : slug -> page content
    index,      \* docs/builds/index.md (and docs/index.md): the slugs listed
    run,        \* per process: the locals of main() and its position
    processed,  \* history: the targets that a non-preview run completed
    rIn,        \* resolveShaPrefixOrThrow called alone: its arguments
    rOut,       \* ... and its result
    cIn,        \* collectMergedPullRequestsForRange called alone: arguments
    cOut,       \* ... and its result
    ui,         \* the site page: selector, state.run, list, loads in flight
    hIn,        \* the request given to the preview server ...
    hOut        \* ... and its response

vars == <<feed, stateFile, pages, index, run, processed, rIn, rOut, cIn, cOut, ui, hIn, hOut>>

(***************************************************************************)
(* Bounds of the model.                                                    *)
(***************************************************************************)
MaxBuild == 5       \* builds 1..MaxBuild are ever published upstream
FeedWindow == 3     \* the feed lists at most this many builds
MaxFeedLen == 2     \* feeds handed to resolveShaPrefixOrThrow alone
MaxInputLen == 2    \* identifiers handed to resolveShaPrefixOrThrow alone
MaxCommits == 3     \* commits handed to collectMergedPullRequestsForRange alone

(***************************************************************************)
(* Program constants.                                                      *)
(***************************************************************************)
ShortShaLen == 7    \* shortSha: sha.slice(0, 7)
MaxPrs == 100       \* main: pullRequests.length > 100
MaxSample == 8      \* resolveShaPrefixOrThrow: matches.slice(0, 8)

Procs == {1, 2}

Min(a, b) == IF a < b THEN a ELSE b

Range(s) == {s[i] : i \in 1..Len(s)}

\* Array.prototype.indexOf: 0-based index of the first occurrence, or -1.
IndexOf(s, x) ==
    IF \E i \in 1..Len(s) : s[i] = x
    THEN (CHOOSE i \in 1..Len(s) : s[i] = x /\ \A j \in 1..(i - 1) : s[j] # x) - 1
    ELSE -1

\* arr[i] with a 0-based index; <<>> stands for undefined.
\* The entry before position i in place of the entry at position i.
AtNewerNeighbour(s, i) == IF i >= 2 /\ i - 2 < Len(s) THEN s[i - 1] ELSE <<>>

At(s, i) == IF i >= 0 /\ i < Len(s) THEN s[i + 1] ELSE <<>>

(***************************************************************************)
(* Strings.                                                                *)
(***************************************************************************)
Space == " "

RECURSIVE TrimStart(_)
TrimStart(s) ==
    IF s # <<>> /\ Head(s) = Space THEN TrimStart(Tail(s)) ELSE s

RECURSIVE TrimEnd(_)
TrimEnd(s) ==
    IF s # <<>> /\ s[Len(s)] = Space THEN TrimEnd(SubSeq(s, 1, Len(s) - 1)) ELSE s

\* String.prototype.trim
Trim(s) == TrimEnd(TrimStart(s))

\* String.prototype.startsWith
StartsWith(s, v) == Len(v) <= Len(s) /\ SubSeq(s, 1, Len(v)) = v

shortSha(sha) == SubSeq(sha, 1, Min(ShortShaLen, Len(sha)))

(***************************************************************************)
(* resolveShaPrefixOrThrow({ shas, input, label }).  The result is a       *)
(* record: ok with the sha returned, or the kind of the error thrown with  *)
(* the match count and the sample the message names.                       *)
(***************************************************************************)
Matches(shas, value) == SelectSeq(shas, LAMBDA s : StartsWith(s, value))

Resolved(sha) ==
    [ok |-> TRUE, sha |-> sha, err |-> "", count |-> 0, sample |-> <<>>]

Thrown(kind, count, sample) ==
    [ok |-> FALSE, sha |-> <<>>, err |-> kind, count |-> count, sample |-> sample]

\* The sample without the slice of line 50.
SampleUnbounded(matches) == [i \in 1..Len(matches) |-> shortSha(matches[i])]

\* matches.slice(0, 8).map(shortSha): the candidates the message names.
Sample(matches) ==
    [i \in 1..Min(MaxSample, Len(matches)) |-> shortSha(matches[i])]

\* The resolution without the exact-match fast path of line 44.
ResolveNoFastPath(shas, input) ==
    LET value == Trim(input)
        matches == Matches(shas, value)
    IN  IF value = <<>> THEN Thrown("Missing", 0, <<>>)
        ELSE IF Len(matches) = 1 THEN Resolved(matches[1])
        ELSE IF Len(matches) > 1
             THEN Thrown("AmbiguousIdentifier", Len(matches),
                         Sample(matches))
        ELSE Thrown("NotFound", 0, <<>>)

resolveShaPrefixOrThrow(shas, input) ==
    LET value == Trim(input)
        matches == Matches(shas, value)
    IN  IF value = <<>> THEN Thrown("Missing", 0, <<>>)
        ELSE IF value \in Range(shas) THEN Resolved(value)
        ELSE IF Len(matches) = 1 THEN Resolved(matches[1])
        ELSE IF Len(matches) > 1
             THEN Thrown("AmbiguousIdentifier", Len(matches),
                         Sample(matches))
        ELSE Thrown("NotFound", 0, <<>>)

(***************************************************************************)
(* The upstream project, as the external services report it.  Build b has  *)
(* the id IdOf(b), the commit date DateOf(b), the package.json version     *)
(* VersionOf(b) and the commits CommitsOf(b) since build b - 1.  Commit    *)
(* c is associated with the pull requests PullsOf(c); pull request n was   *)
(* merged at MergedAtOf(n), 0 standing for a null merged_at.               *)
(***************************************************************************)
Letters == <<"a", "b", "c", "d", "e", "f">>
Digits == <<"0", "1">>

IdOf(b) == <<Letters[(b \div 2) + 1], Digits[(b % 2) + 1]>>

BuildOf(id) == CHOOSE b \in 0..(MaxBuild + 1) : IdOf(b) = id

DateOf(b) == b

VersionOf(b) == (b + 1) \div 2

CommitsOf(b) == <<10 * b + 1, 10 * b + 2>>

PullsOf(c) ==
    LET b == c \div 10
        k == c % 10
    IN  IF b = 5
        THEN IF k = 1 THEN [i \in 1..MaxPrs |-> 100 + i]
                      ELSE <<100 + MaxPrs, 101 + MaxPrs>>
        ELSE IF b = 4
        THEN IF k = 1 THEN [i \in 1..MaxPrs |-> 300 + i]
                      ELSE <<300 + MaxPrs, 301>>
        ELSE IF k = 1 THEN <<b>> ELSE <<50 + b, b, 90 + b>>

MergedAtOf(n) ==
    IF n >= 100 THEN 100
    ELSE IF n >= 90 THEN 0
    ELSE IF n >= 50 THEN n - 50
    ELSE n

RECURSIVE CommitsBetween(_, _)
CommitsBetween(from, to) ==
    IF from >= to THEN <<>> ELSE CommitsBetween(from, to - 1) \o CommitsOf(to)

\* getInsidersBuildCommits: the newest FeedWindow builds out of 1..head.
FeedAt(head) ==
    [i \in 1..Min(FeedWindow, head) |-> IdOf(head + 1 - i)]

(***************************************************************************)
(* collectMergedPullRequestsForRange({ repo, commits }).  failC are the    *)
(* commits whose pull-request lookup fails, failP the pull requests whose  *)
(* detail fetch fails (both are caught and skipped).  Commit 0 stands for  *)
(* a commit object without a sha.  The result is the list of pull request  *)
(* numbers in the order of the returned array.                             *)
(***************************************************************************)
\* The elements of s at the positions in I, in order.
Pick(s, I) ==
    LET pos == [i \in I |-> Cardinality({j \in I : j <= i})]
    IN  [k \in 1..Cardinality(I) |-> s[CHOOSE i \in I : pos[i] = k]]

\* The additions with an array in place of the Set.
AddAllNoDedup(acc, s) == acc \o s

\* Set.prototype.add for each element of a list, in order: a Set keeps
\* insertion order and ignores values it already holds.  (A list without
\* repetitions needs only the test against the values already held.)
AddAll(acc, s) ==
    LET seen == Range(acc)
    IN  IF Cardinality(Range(s)) = Len(s)
        THEN acc \o SelectSeq(s, LAMBDA x : x \notin seen)
        ELSE acc \o Pick(s, {i \in 1..Len(s) :
                               /\ s[i] \notin seen
                               /\ \A j \in 1..(i - 1) : s[j] # s[i]})

\* The commit loop with the collection emptied when a lookup fails.
RECURSIVE PrNumbersResetOnFailure(_, _, _)
PrNumbersResetOnFailure(acc, commits, failC) ==
    IF commits = <<>> THEN acc
    ELSE LET c == Head(commits)
         IN  PrNumbersResetOnFailure(
                 IF c = 0 THEN acc
                 ELSE IF c \in failC THEN <<>>
                 ELSE AddAll(acc, PullsOf(c)),
                 Tail(commits), failC)

RECURSIVE PrNumbers(_, _, _)
PrNumbers(acc, commits, failC) ==
    IF commits = <<>> THEN acc
    ELSE LET c == Head(commits)
         IN  PrNumbers(IF c = 0 \/ c \in failC THEN acc ELSE AddAll(acc, PullsOf(c)),
                       Tail(commits), failC)

\* prs.sort((a, b) => String(b.merged_at).localeCompare(String(a.merged_at))):
\* a stable sort, newest merge first: the pull requests of the latest merge
\* time in the order they had, then those of the next merge time, and so on.
RECURSIVE ByMergeTimes(_, _)
ByMergeTimes(s, times) ==
    IF times = {} THEN <<>>
    ELSE LET latest == CHOOSE t \in times : \A u \in times : u <= t
         IN  SelectSeq(s, LAMBDA n : MergedAtOf(n) = latest)
                \o ByMergeTimes(s, times \ {latest})

SortByMergedAtDesc(s) == ByMergeTimes(s, {MergedAtOf(s[i]) : i \in 1..Len(s)})

\* The test of line 567 without the merge timestamp.
IsMergedAlways(n) == TRUE

\* if (!pr?.merged_at) continue
IsMerged(n) == MergedAtOf(n) # 0

collectMergedPullRequestsForRange(commits, failC, failP) ==
    LET prNumbers == PrNumbers(<<>>, commits, failC)
        prs == SelectSeq(prNumbers, LAMBDA n : n \notin failP /\ IsMerged(n))
    IN  SortByMergedAtDesc(prs)

(***************************************************************************)
(* Files.                                                                  *)
(***************************************************************************)
\* readJsonIfExists(STATE_PATH) || { repo }: no file reads as a state
\* without lastProcessedBuildSha (<<>>).
NoState == [sha |-> <<>>, version |-> 0]

NoPage == [to |-> <<>>, from |-> <<>>, version |-> 0, warning |-> FALSE, prs |-> <<>>]

\* slug = `${date}_${time}_${version}_${shortSha(buildSha)}`
SlugOf(date, version, buildSha) == <<date, version, shortSha(buildSha)>>

\* The truncation test with >= in place of > at line 644.
WasTruncatedOrEqual(totalCommits, commits) == totalCommits >= Len(commits)

\* Line 644 (and the run snapshot's wasTruncated): more commits in total
\* than returned.
WasTruncated(totalCommits, commits) == totalCommits > Len(commits)

\* The page with the two ends of the range exchanged.
buildPageMarkdownSwapped(fromSha, toSha, totalCommits, commits, version, prs) ==
    [to |-> fromSha, from |-> toSha, version |-> version,
     warning |-> WasTruncated(totalCommits, commits), prs |-> prs]

\* buildPageMarkdown: the page names the range, the version, the truncation
\* warning and the changes.
buildPageMarkdown(fromSha, toSha, totalCommits, commits, version, prs) ==
    [to |-> toSha, from |-> fromSha, version |-> version,
     warning |-> WasTruncated(totalCommits, commits), prs |-> prs]

\* writeFile(pagePath, md)
WritePage(dir, slug, md) ==
    [s \in DOMAIN dir \cup {slug} |-> IF s = slug THEN md ELSE dir[s]]

\* rebuildBuildIndexes: lists the *-insider*.md files of docs/builds, newest
\* slug first; the listing is determined by the set of file names.
rebuildBuildIndexes(dir) == DOMAIN dir

(***************************************************************************)
(* The skip test and the choice of the state to write, as main() has them. *)
(***************************************************************************)
\* The skip test without lastIdx !== -1 at line 700.
ShouldSkipWithoutFeedTest(preview, force, state, insidersCommits, buildIndex) ==
    /\ ~preview
    /\ ~force
    /\ state.sha # <<>>
    /\ IndexOf(insidersCommits, state.sha) <= buildIndex

\* The skip test without !preview at line 698.
ShouldSkipInPreview(preview, force, state, insidersCommits, buildIndex) ==
    /\ ~force
    /\ state.sha # <<>>
    /\ LET lastIdx == IndexOf(insidersCommits, state.sha)
       IN  lastIdx # -1 /\ lastIdx <= buildIndex

\* The skip test with < in place of <= at line 700.
ShouldSkipOnlyNewer(preview, force, state, insidersCommits, buildIndex) ==
    /\ ~preview
    /\ ~force
    /\ state.sha # <<>>
    /\ LET lastIdx == IndexOf(insidersCommits, state.sha)
       IN  lastIdx # -1 /\ lastIdx < buildIndex

ShouldSkip(preview, force, state, insidersCommits, buildIndex) ==
    /\ ~preview
    /\ ~force
    /\ state.sha # <<>>
    /\ LET lastIdx == IndexOf(insidersCommits, state.sha)
       IN  lastIdx # -1 /\ lastIdx <= buildIndex

\* The next marker without lines 798-804.
NextAlwaysTarget(state, insidersCommits, buildSha, buildIndex) == buildSha

\* The next marker without the test lastIdx !== -1 at line 801.
NextWithoutFeedTest(state, insidersCommits, buildSha, buildIndex) ==
    IF state.sha # <<>>
    THEN LET lastIdx == IndexOf(insidersCommits, state.sha)
         IN  IF lastIdx < buildIndex THEN state.sha ELSE buildSha
    ELSE buildSha

\* The next marker with > in place of < at line 801.
NextComparisonFlipped(state, insidersCommits, buildSha, buildIndex) ==
    IF state.sha # <<>>
    THEN LET lastIdx == IndexOf(insidersCommits, state.sha)
         IN  IF lastIdx # -1 /\ lastIdx > buildIndex THEN state.sha ELSE buildSha
    ELSE buildSha

NextLastProcessedBuildSha(state, insidersCommits, buildSha, buildIndex) ==
    IF state.sha # <<>>
    THEN LET lastIdx == IndexOf(insidersCommits, state.sha)
         IN  IF lastIdx # -1 /\ lastIdx < buildIndex THEN state.sha ELSE buildSha
    ELSE buildSha

\* --out: not given, or the path of a file, which may be the page of a
\* slug in docs/builds.
NoSlug == <<0, 0, <<>>>>

NoOut == [given |-> FALSE, inBuilds |-> FALSE, slug |-> NoSlug]

\* What the compare call returned: the number of commits in compare.commits
\* and total_commits, which is a number only when hasTotal.
NoCompare == [commits |-> 0, hasTotal |-> FALSE, total_commits |-> 0]

(***************************************************************************)
(* One run of main().  The record holds main's locals, the error it threw  *)
(* and the external calls and file writes it made so far, in order         *)
(* (trace).  state and feed are what the run read at its start.            *)
(***************************************************************************)
Idle ==
    [pc |-> "idle", preview |-> FALSE, force |-> FALSE, override |-> FALSE,
     previousArg |-> <<>>, failC |-> {},
     state |-> NoState, feed |-> <<>>, buildSha |-> <<>>, previousSha |-> <<>>,
     version |-> 0, nprs |-> 0, compare |-> NoCompare, md |-> NoPage,
     outPath |-> NoOut,
     error |-> "", status |-> 0,
     trace |-> <<>>]

Exited == {"done", "skipped", "failed"}

\* The catch of line 827 without the process.exit(1).
FailedWithoutExit(r, kind) == [r EXCEPT !.pc = "failed", !.error = kind]

\* main().catch((err) => { console.error(err); process.exit(1); })
Failed(r, kind) == [r EXCEPT !.pc = "failed", !.error = kind, !.status = 1]

\* The identifiers a caller passes as --build-sha (or that --latest
\* resolves to) and as --previous-sha; <<>> is an absent argument.
BuildInputs ==
    {<<>>} \cup {IdOf(b) : b \in 1..MaxBuild} \cup {<<"a">>, <<"b">>}

PrevInputs == {<<>>, IdOf(1), <<"a">>}

(***************************************************************************)
(* main(), first part (lines 664-708): arguments, state file, feed, target *)
(* and previous boundary, repository info, skip test.  fail names the      *)
(* external call that fails in this part, if any.                          *)
(***************************************************************************)
BeginRun(preview, force, requestedBuildSha, previousArg, fail, st, fd) ==
    LET r0 == [Idle EXCEPT !.preview = preview, !.force = force,
                           !.override = (previousArg # <<>>),
                           !.previousArg = previousArg]
        build == resolveShaPrefixOrThrow(fd, requestedBuildSha)
        buildIndex == IndexOf(fd, build.sha)
        requestedPreviousSha ==
            IF previousArg # <<>> THEN previousArg ELSE At(fd, buildIndex + 1)
        prev == resolveShaPrefixOrThrow(fd, requestedPreviousSha)
        r1 == [r0 EXCEPT !.state = st, !.trace = <<"readState">>]
        r2 == [r1 EXCEPT !.feed = fd, !.trace = @ \o <<"feed">>]
        r3 == [r2 EXCEPT !.buildSha = build.sha]
        r4 == [r3 EXCEPT !.previousSha = prev.sha]
        r5 == [r4 EXCEPT !.trace = @ \o <<"repoInfo">>]
    IN  IF requestedBuildSha = <<>> THEN Failed(r0, "Missing")
        ELSE IF fail = "feed" THEN Failed(r1, "Upstream")
        ELSE IF ~build.ok THEN Failed(r2, build.err)
        ELSE IF requestedPreviousSha = <<>> THEN Failed(r3, "NoPreviousMarker")
        ELSE IF ~prev.ok THEN Failed(r3, prev.err)
        ELSE IF fail = "repoInfo" THEN Failed(r4, "Upstream")
        ELSE IF ShouldSkip(preview, force, st, fd, buildIndex)
             THEN IF fail = "index" THEN Failed(r5, "WriteFailed")
                  ELSE [r5 EXCEPT !.pc = "skipped",
                                  !.trace = @ \o <<"rebuildIndexes">>]
        ELSE [r5 EXCEPT !.pc = "begun"]

BeginWith(p, outPaths) ==
    /\ run[p].pc = "idle"
    /\ \E preview \in BOOLEAN, force \in BOOLEAN,
          requestedBuildSha \in BuildInputs, previousArg \in PrevInputs,
          fail \in {"none", "feed", "repoInfo", "index"}, outPath \in outPaths :
          LET r == [BeginRun(preview, force, requestedBuildSha, previousArg, fail,
                             stateFile, feed) EXCEPT !.outPath = outPath]
          IN  /\ run' = [run EXCEPT ![p] = r]
              /\ index' = IF r.pc = "skipped" THEN rebuildBuildIndexes(pages)
                          ELSE index
    /\ UNCHANGED <<feed, stateFile, pages, processed, rIn, rOut, cIn, cOut, ui, hIn, hOut>>

\* A run without --out.
Begin(p) == BeginWith(p, {NoOut})

(***************************************************************************)
(* main(), second part (lines 710-759): build commit and version, compare, *)
(* change collection, ceiling, narrative generation, installers, page      *)
(* text.  The compare call returns the commits of the range without the    *)
(* last cut of them, and a numeric total_commits only when hasTotal; the   *)
(* pull-request lookup fails for no commit, for the last one or for all.   *)
(***************************************************************************)
\* The ceiling test with >= in place of > at line 727.
ExceedsCeilingOffByOne(n) == n >= MaxPrs

ExceedsCeiling(n) == n > MaxPrs

\* generateAiExplainers without the test of line 503.
IsEmptyInputNever(pullRequests) == FALSE

\* if (!pullRequests?.length) throw ...
IsEmptyInput(pullRequests) == Len(pullRequests) = 0

\* compare.commits of getCompare(repo, previousSha, buildSha)
CompareCommits(previousSha, buildSha, cut) ==
    LET full == CommitsBetween(BuildOf(previousSha), BuildOf(buildSha))
    IN  SubSeq(full, 1, IF Len(full) >= cut THEN Len(full) - cut ELSE 0)

\* Line 723: total_commits when it is a number, else the number of commits
\* returned.
TotalCommits(compare, commits) ==
    IF compare.hasTotal THEN compare.total_commits ELSE Len(commits)

GatherRun(r, fail, commits, compare, failC, pullRequests) ==
    LET totalCommits == TotalCommits(compare, commits)
        version == VersionOf(BuildOf(r.buildSha))
        md == buildPageMarkdown(r.previousSha, r.buildSha, totalCommits, commits,
                                version, pullRequests)
        r1 == [r EXCEPT !.trace = @ \o <<"getCommit">>]
        r2 == [r1 EXCEPT !.version = version, !.trace = @ \o <<"package.json">>]
        r3 == [r2 EXCEPT !.compare = compare, !.trace = @ \o <<"compare">>]
        r4 == [r3 EXCEPT !.failC = failC, !.nprs = Len(pullRequests),
                         !.trace = @ \o <<"collect">>]
        r5 == [r4 EXCEPT !.trace = @ \o <<"writePrompts">>]
        r6 == [r5 EXCEPT !.trace = @ \o <<"openai">>]
        r7 == [r6 EXCEPT !.md = md, !.trace = @ \o <<"installers">>]
    IN  IF fail = "getCommit" THEN Failed(r, "Upstream")
        ELSE IF fail = "package.json" THEN Failed(r1, "Upstream")
        ELSE IF fail = "compare" THEN Failed(r2, "Upstream")
        ELSE IF ExceedsCeiling(Len(pullRequests)) THEN Failed(r4, "TooManyChanges")
        ELSE IF fail = "apiKey" THEN Failed(r4, "NoApiKey")
        ELSE IF IsEmptyInput(pullRequests) THEN Failed(r4, "EmptyInput")
        ELSE IF fail = "openai" THEN Failed(r5, "Upstream")
        ELSE IF fail = "response" THEN Failed(r6, "InvalidResponse")
        ELSE [r7 EXCEPT !.pc = "gathered"]

GatherFails ==
    {"none", "getCommit", "package.json", "compare", "apiKey", "openai", "response"}

Gather(p, cuts, totals, lookups) ==
    /\ run[p].pc = "begun"
    /\ \E cut \in cuts, hasTotal \in totals, lookup \in lookups :
          LET r == run[p]
              full == CompareCommits(r.previousSha, r.buildSha, 0)
              commits == CompareCommits(r.previousSha, r.buildSha, cut)
              compare == [commits |-> Len(commits), hasTotal |-> hasTotal,
                          total_commits |-> IF hasTotal THEN Len(full) ELSE 0]
              failC == IF lookup = "all" THEN Range(commits)
                       ELSE IF lookup = "last" /\ commits # <<>>
                            THEN {commits[Len(commits)]}
                       ELSE {}
              pullRequests == collectMergedPullRequestsForRange(commits, failC, {})
          IN  \E fail \in GatherFails :
                 run' = [run EXCEPT ![p] =
                            GatherRun(r, fail, commits, compare, failC,
                                      pullRequests)]
    /\ UNCHANGED <<feed, stateFile, pages, index, processed, rIn, rOut, cIn, cOut, ui, hIn, hOut>>

(***************************************************************************)
(* main(), third part (lines 761-817): the page (or the preview file), the *)
(* release artifacts under .out, the state file, the indexes.  fail names  *)
(* the write that fails, if any.  The result is the run record and the     *)
(* three persisted files after the writes that were made.                  *)
(***************************************************************************)
\* writeFile(previewPath, md) at line 766: docs/builds changes when --out
\* names a file in it; the preview file itself is not a modelled file.
PreviewWritten(dir, outPath, md) ==
    IF outPath.given /\ outPath.inBuilds THEN WritePage(dir, outPath.slug, md)
    ELSE dir

\* The state record taken from the file as it is when the run writes.
StateReadAgain(r, st) == st

\* The state record the marker decision at lines 797-805 uses: the one read
\* at line 680, whatever the file st holds by now.
StateAtWrite(r, st) == r.state

WriteRun(r, fail, st, dir, idx) ==
    LET b == BuildOf(r.buildSha)
        slug == SlugOf(DateOf(b), r.version, r.buildSha)
        buildIndex == IndexOf(r.feed, r.buildSha)
        next == NextLastProcessedBuildSha(StateAtWrite(r, st), r.feed, r.buildSha,
                                          buildIndex)
        nextState == [sha |-> next, version |-> r.version]
        dir1 == IF r.preview THEN PreviewWritten(dir, r.outPath, r.md)
                ELSE WritePage(dir, slug, r.md)
        r1 == [r EXCEPT !.trace = @ \o <<IF r.preview THEN "writePreview"
                                                       ELSE "writePage">>]
        r2 == [r1 EXCEPT !.trace = @ \o <<"writeOut">>]
        r3 == [r2 EXCEPT !.trace = @ \o <<"writeState">>]
        r4 == [r3 EXCEPT !.trace = @ \o <<"rebuildIndexes">>]
        out(rr, kind, s, d, i) ==
            [run |-> IF kind = "" THEN [rr EXCEPT !.pc = "done"] ELSE Failed(rr, kind),
             stateFile |-> s, pages |-> d, index |-> i]
    IN  IF fail = "page" THEN out(r, "WriteFailed", st, dir, idx)
        ELSE IF fail = "out" THEN out(r1, "WriteFailed", st, dir1, idx)
        ELSE IF r.preview THEN out(r2, "", st, dir1, idx)
        ELSE IF fail = "state" THEN out(r2, "WriteFailed", st, dir1, idx)
        ELSE IF fail = "index" THEN out(r3, "WriteFailed", nextState, dir1, idx)
        ELSE out(r4, "", nextState, dir1, rebuildBuildIndexes(dir1))

Write(p) ==
    /\ run[p].pc = "gathered"
    /\ \E fail \in {"none", "page", "out", "state", "index"} :
          LET w == WriteRun(run[p], fail, stateFile, pages, index)
          IN  /\ run' = [run EXCEPT ![p] = w.run]
              /\ stateFile' = w.stateFile
              /\ pages' = w.pages
              /\ index' = w.index
              /\ processed' = IF w.run.pc = "done" /\ ~w.run.preview
                               THEN processed \cup {w.run.buildSha}
                               ELSE processed
    /\ UNCHANGED <<feed, rIn, rOut, cIn, cOut, ui, hIn, hOut>>

\* main() returned, or main().catch(...) called process.exit(1): the process
\* is gone and the next invocation starts afresh.
Exit(p) ==
    /\ run[p].pc \in Exited
    /\ run' = [run EXCEPT ![p] = Idle]
    /\ UNCHANGED <<feed, stateFile, pages, index, processed, rIn, rOut, cIn, cOut, ui, hIn, hOut>>

(***************************************************************************)
(* Upstream publishes the next build: it enters the feed at the head and   *)
(* the oldest entry leaves once the feed is full.                          *)
(***************************************************************************)
FeedPublish ==
    /\ BuildOf(feed[1]) < MaxBuild
    /\ feed' = FeedAt(BuildOf(feed[1]) + 1)
    /\ UNCHANGED <<stateFile, pages, index, run, processed, rIn, rOut, cIn, cOut, ui, hIn, hOut>>

(***************************************************************************)
(* The site page (src/site/app.js).  Runs are named by their place in      *)
(* index.json; the data a load returns is named by the run it belongs to.  *)
(* UiLoaded is the page after main() has loaded and shown the first run    *)
(* and set the selector to it (lines 167-170), before the change listener  *)
(* is attached (177).                                                      *)
(***************************************************************************)
MaxRuns == 3

MaxLoads == 3

RunPaths == 1..MaxRuns

UiLoaded ==
    [selected |-> 1, run |-> 1, list |-> 1, inflight |-> <<>>, loads |-> 0,
     rejected |-> FALSE]

\* The preview server (scripts/preview.mjs) given one request, and its
\* response.
NoRequest ==
    [url |-> <<>>, indexExists |-> FALSE, found |-> "none", dirIndex |-> FALSE]

NotHandled == [called |-> FALSE, status |-> 0, body |-> ""]

(***************************************************************************)
(* Spec: runs of main() one after the other (the scheduler's single-writer *)
(* assumption).  At the start the feed is full; there is either no state   *)
(* file yet or one left by a run on a build that has since left the feed.  *)
(* The compare results are complete and the pull-request lookups succeed   *)
(* for all commits of a range or fail for all of them.                     *)
(***************************************************************************)
NoCall == [shas |-> <<>>, input |-> <<>>]
NotResolved == [called |-> FALSE, res |-> Thrown("", 0, <<>>)]
NoCollect == [commits |-> <<>>, failC |-> {}, failP |-> {}]
NotCollected == [called |-> FALSE, prs |-> <<>>]

InitFiles ==
    /\ feed = FeedAt(FeedWindow)
    /\ pages = <<>>
    /\ index = {}
    /\ run = [p \in Procs |-> Idle]
    /\ processed = {}

Init ==
    /\ InitFiles
    /\ stateFile \in {NoState, [sha |-> IdOf(0), version |-> VersionOf(0)]}
    /\ rIn = NoCall
    /\ rOut = NotResolved
    /\ cIn = NoCollect
    /\ cOut = NotCollected
    /\ ui = UiLoaded
    /\ hIn = NoRequest
    /\ hOut = NotHandled

\* failC: the commits whose pull-request lookup failed (in the run record
\* from the collection on).
Next ==
    \/ FeedPublish
    \/ Begin(1)
    \/ Gather(1, {0}, {TRUE}, {"none", "all"})
    \/ Write(1)
    \/ Exit(1)

Spec == Init /\ [][Next]_vars

(***************************************************************************)
(* SpecResolve: resolveShaPrefixOrThrow alone, on every feed of at most    *)
(* MaxFeedLen distinct ids of at most MaxIdLen characters and every        *)
(* identifier of at most MaxInputLen characters, blanks included.          *)
(***************************************************************************)
MaxIdLen == 2

SeqsUpTo(S, n) == UNION {[1..k -> S] : k \in 0..n}

FeedIds == SeqsUpTo({"a", "b"}, MaxIdLen) \ {<<>>}

Feeds ==
    {f \in SeqsUpTo(FeedIds, MaxFeedLen) :
        f # <<>> /\ \A i, j \in 1..Len(f) : i # j => f[i] # f[j]}

Identifiers == SeqsUpTo({"a", "b", Space}, MaxInputLen)

InitResolve ==
    /\ InitFiles
    /\ stateFile = NoState
    /\ rIn \in [shas : Feeds, input : Identifiers]
    /\ rOut = NotResolved
    /\ cIn = NoCollect
    /\ cOut = NotCollected
    /\ ui = UiLoaded
    /\ hIn = NoRequest
    /\ hOut = NotHandled

Resolve ==
    /\ ~rOut.called
    /\ rOut' = [called |-> TRUE, res |-> resolveShaPrefixOrThrow(rIn.shas, rIn.input)]
    /\ UNCHANGED <<feed, stateFile, pages, index, run, processed, rIn, cIn, cOut, ui, hIn, hOut>>

NextResolve == Resolve

SpecResolve == InitResolve /\ [][NextResolve]_vars

(***************************************************************************)
(* SpecCollect: collectMergedPullRequestsForRange alone, on every list of  *)
(* at most MaxCommits commits of builds 1 and 2 (and the commit without a  *)
(* sha), with any of the lookups failing.                                  *)
(***************************************************************************)
CommitInputs == {0} \cup Range(CommitsOf(1)) \cup Range(CommitsOf(2))

InitCollect ==
    /\ InitFiles
    /\ stateFile = NoState
    /\ rIn = NoCall
    /\ rOut = NotResolved
    /\ \E commits \in SeqsUpTo(CommitInputs, MaxCommits) :
          cIn \in [commits : {commits}, failC : SUBSET (Range(commits) \ {0}),
                   failP : SUBSET {1, 2}]
    /\ cOut = NotCollected
    /\ ui = UiLoaded
    /\ hIn = NoRequest
    /\ hOut = NotHandled

Collect ==
    /\ ~cOut.called
    /\ cOut' = [called |-> TRUE,
                prs |-> collectMergedPullRequestsForRange(cIn.commits, cIn.failC,
                                                          cIn.failP)]
    /\ UNCHANGED <<feed, stateFile, pages, index, run, processed, rIn, rOut, cIn, ui, hIn, hOut>>

NextCollect == Collect

SpecCollect == InitCollect /\ [][NextCollect]_vars

(***************************************************************************)
(* Properties of the runs of main() (specification Spec).                  *)
(***************************************************************************)
R == run[1]

Called(r, what) == what \in Range(r.trace)

\* The run finished its work without error and was not a preview.
Succeeded(r) == r.pc = "done" /\ ~r.preview

\* a is at the same feed position as b or at a newer one (both in fd).
NotOlderInFeed(fd, a, b) ==
    /\ IndexOf(fd, a) # -1
    /\ IndexOf(fd, b) # -1
    /\ IndexOf(fd, a) <= IndexOf(fd, b)

OlderInFeed(fd, a, b) ==
    /\ IndexOf(fd, a) # -1
    /\ IndexOf(fd, b) # -1
    /\ IndexOf(fd, a) > IndexOf(fd, b)

\* C1: across runs that do not overlap, the persisted marker never moves to
\* an older build: whatever step is taken, a state file that names a build
\* names the same build or a newer one afterwards.
C1_MarkerNeverMovesBack ==
    [][stateFile.sha # <<>> =>
          /\ stateFile'.sha # <<>>
          /\ BuildOf(stateFile'.sha) >= BuildOf(stateFile.sha)]_vars

\* C1 witness: a successful run that found a marker and left a newer one.
C1_Witness ==
    /\ Succeeded(R)
    /\ R.state.sha # <<>>
    /\ BuildOf(stateFile.sha) > BuildOf(R.state.sha)

\* C2: a forced run that successfully processes a target older in the feed
\* than the persisted marker leaves the marker's build identifier as it was.
C2_ForcedOlderKeepsMarker ==
    (Succeeded(R) /\ R.force /\ OlderInFeed(R.feed, R.buildSha, R.state.sha))
        => stateFile.sha = R.state.sha

\* C2 witness: such a forced run has finished.
C2_Witness ==
    /\ Succeeded(R)
    /\ R.force
    /\ OlderInFeed(R.feed, R.buildSha, R.state.sha)
    /\ Called(R, "writeState")

\* C3: a successful run for a target, when no marker was persisted or the
\* target is strictly newer than the persisted marker, leaves the marker
\* equal to the target.
C3_NewerTargetBecomesMarker ==
    (Succeeded(R) /\ (R.state.sha = <<>>
                        \/ BuildOf(R.buildSha) > BuildOf(R.state.sha)))
        => stateFile.sha = R.buildSha

\* C3 witness: a successful run on a target newer than the marker it found
\* in the feed.
C3_Witness ==
    /\ Succeeded(R)
    /\ OlderInFeed(R.feed, R.state.sha, R.buildSha)
    /\ stateFile.sha = R.buildSha

\* The case of C4: no force, a persisted marker, and the marker at the
\* target's feed position or a newer one.
SkipCase(r) ==
    /\ ~r.force
    /\ r.state.sha # <<>>
    /\ r.buildSha # <<>>
    /\ NotOlderInFeed(r.feed, r.state.sha, r.buildSha)

\* No change lookup, no generator call, no page and no marker write.
NoWork(r) ==
    /\ ~Called(r, "collect")
    /\ ~Called(r, "writePrompts")
    /\ ~Called(r, "openai")
    /\ ~Called(r, "writePage")
    /\ ~Called(r, "writePreview")
    /\ ~Called(r, "writeState")

\* C4 as written: a run without force whose persisted marker sits at the
\* target's feed position or a newer one does none of the work.
C4_AsWritten == SkipCase(R) => NoWork(R)

\* C4: a run without force and without preview, whose persisted marker sits
\* at the same feed position as the target or a newer one, skips all work:
\* it looks up no changes, does not call the narrative generator, writes no
\* page and does not write the marker, which stays as the run found it.
C4_NonPreviewSkipsAllWork ==
    (SkipCase(R) /\ ~R.preview) =>
        /\ NoWork(R)
        /\ R.pc \in {"skipped", "failed"}
        /\ stateFile = R.state

\* C4 witness: a run skipped on a target older than the persisted marker.
C4_Witness ==
    /\ R.pc = "skipped"
    /\ ~R.preview
    /\ OlderInFeed(R.feed, R.buildSha, R.state.sha)

\* C5: after a run has successfully processed a target T, a run without
\* force (and without preview or previous-boundary override) for T or for
\* an older build of the feed, with the persisted marker in the feed at the
\* target's position or a newer one and no upstream or write failure, ends
\* without error as a skipped run and leaves the persisted state identical.
C5_RerunIsNoOp ==
    (/\ R.pc \in Exited
     /\ ~R.force
     /\ ~R.preview
     /\ ~R.override
     /\ R.buildSha # <<>>
     /\ \E T \in processed : BuildOf(R.buildSha) <= BuildOf(T)
     /\ NotOlderInFeed(R.feed, R.state.sha, R.buildSha)
     /\ R.error \notin {"Upstream", "WriteFailed"})
        => /\ R.pc = "skipped"
           /\ R.error = ""
           /\ stateFile = R.state

\* C6 as written: a successful run that found no persisted marker computed
\* no range and produced no build page.
C6_AsWritten ==
    (Succeeded(R) /\ R.state.sha = <<>>) =>
        /\ ~Called(R, "compare")
        /\ ~Called(R, "writePage")
        /\ stateFile.sha = R.buildSha

\* C6: a non-preview run that finds no persisted marker is never skipped;
\* when it succeeds it has compared the range from the previous boundary to
\* the target, has written the target's build page for that range, and has
\* persisted the target as the marker.
C6_NoMarkerRunProcessesTarget ==
    (~R.preview /\ R.state.sha = <<>>) =>
        /\ R.pc # "skipped"
        /\ R.pc = "done" =>
              LET slug == SlugOf(DateOf(BuildOf(R.buildSha)), R.version, R.buildSha)
              IN  /\ Called(R, "compare")
                  /\ Called(R, "collect")
                  /\ slug \in DOMAIN pages
                  /\ pages[slug].to = R.buildSha
                  /\ pages[slug].from = R.previousSha
                  /\ slug \in index
                  /\ stateFile.sha = R.buildSha

\* C6 witness: a run that found no marker has succeeded.
C6_Witness ==
    /\ Succeeded(R)
    /\ R.state.sha = <<>>
    /\ Called(R, "readState")
    /\ pages # <<>>

\* C7: when a run fails after the skip test, at whatever call or write,
\* nothing is persisted by it: state file, build pages and index are as
\* they were before the failing step.
C7_FailurePersistsNothing ==
    [][(run[1].pc \in {"begun", "gathered"} /\ run'[1].pc = "failed")
          => UNCHANGED <<stateFile, pages, index>>]_vars

\* C8: when the deduplicated merged changes of the range exceed the ceiling
\* the run fails with TooManyChanges right after the collection, before the
\* generator is called and before any page, state or index write; a range
\* with no more changes than the ceiling does not fail on the ceiling.
C8_Ceiling ==
    /\ R.nprs > MaxPrs =>
          /\ R.pc = "failed"
          /\ R.error = "TooManyChanges"
          /\ R.trace[Len(R.trace)] = "collect"
          /\ stateFile = R.state
    /\ R.error = "TooManyChanges" => R.nprs > MaxPrs

\* C8 witness: a run failed on the ceiling with one change too many.
C8_Witness ==
    /\ R.pc = "failed"
    /\ R.error = "TooManyChanges"
    /\ R.nprs = MaxPrs + 1

(***************************************************************************)
(* Properties of collectMergedPullRequestsForRange (SpecCollect).          *)
(***************************************************************************)
\* C9: the collected list holds at most one record per change number,
\* however many commits of the range refer to the change and in whatever
\* order the commits are visited.
C9_OneRecordPerChange ==
    cOut.called =>
        \A i, j \in 1..Len(cOut.prs) : i # j => cOut.prs[i] # cOut.prs[j]

\* C9 witness: two different commits of the range, both looked up, refer to
\* the same merged change, and the change is in the collected list.
C9_Witness ==
    /\ cOut.called
    /\ \E i, j \in 1..Len(cIn.commits) :
          LET c == cIn.commits[i]
              d == cIn.commits[j]
          IN  /\ c # d
              /\ c # 0 /\ d # 0
              /\ c \notin cIn.failC /\ d \notin cIn.failC
              /\ \E n \in Range(PullsOf(c)) \cap Range(PullsOf(d)) :
                    n \in Range(cOut.prs)

(***************************************************************************)
(* Properties of resolveShaPrefixOrThrow (SpecResolve).                    *)
(***************************************************************************)
IsPrefix(v, s) == Len(v) <= Len(s) /\ \A i \in 1..Len(v) : s[i] = v[i]

\* The feed entries that start with the identifier, in feed order.
PrefixMatches(shas, id) == {i \in 1..Len(shas) : IsPrefix(id, shas[i])}

\* The identifier without the blanks around it.
Core(id) ==
    LET solid == {k \in 1..Len(id) : id[k] # Space}
    IN  IF solid = {} THEN <<>>
        ELSE SubSeq(id, CHOOSE k \in solid : \A l \in solid : k <= l,
                        CHOOSE k \in solid : \A l \in solid : l <= k)

\* What the resolution rule gives for the identifier id, read as it is.
ResolvesAsRuled(shas, id, res) ==
    LET m == PrefixMatches(shas, id)
    IN  /\ id \in Range(shas) => res.ok /\ res.sha = id
        /\ (id \notin Range(shas) /\ Cardinality(m) = 1) =>
              res.ok /\ \E i \in m : res.sha = shas[i]
        /\ (id \notin Range(shas) /\ m = {}) =>
              ~res.ok /\ res.err = "NotFound"
        /\ (id \notin Range(shas) /\ Cardinality(m) > 1) =>
              ~res.ok /\ res.err = "AmbiguousIdentifier"
        /\ res.ok => res.sha \in Range(shas)

\* C10 as written: for a non-empty identifier the rule applies to the
\* identifier as given.
C10_AsWritten ==
    (rOut.called /\ rIn.input # <<>>) =>
        ResolvesAsRuled(rIn.shas, rIn.input, rOut.res)

\* C10: the rule applies to the identifier with surrounding whitespace
\* removed: an exact match returns it, otherwise a single feed entry that
\* starts with it is returned, no such entry fails with NotFound, several
\* fail with AmbiguousIdentifier; an identifier that is empty after the
\* removal fails as missing; whatever is returned is a feed entry.
C10_ResolvesTrimmedIdentifier ==
    rOut.called =>
        IF Core(rIn.input) = <<>>
        THEN ~rOut.res.ok /\ rOut.res.err = "Missing"
        ELSE ResolvesAsRuled(rIn.shas, Core(rIn.input), rOut.res)

\* C10 witness: an identifier with a blank around it resolved to the one
\* feed entry that starts with its solid part, another entry being the
\* solid part of no prefix.
C10_Witness ==
    /\ rOut.called
    /\ rOut.res.ok
    /\ rIn.input # Core(rIn.input)
    /\ rOut.res.sha # Core(rIn.input)
    /\ Len(rIn.shas) > 1

(***************************************************************************)
(* SpecCrowd: resolveShaPrefixOrThrow alone, on feeds of ids longer than   *)
(* an abbreviated id, up to CrowdSize of which start with the same letter. *)
(* A feed is any selection of the entries of CrowdBase, in the order of    *)
(* CrowdBase or in the reverse order.                                      *)
(***************************************************************************)
CrowdSize == 10

CrowdChars == <<"0", "1", "2", "3", "4", "5", "6", "7", "8", "9", "a", "b", "c">>

CrowdTail == <<"x", "x", "x", "x", "x", "y">>

CrowdBase ==
    [i \in 1..(CrowdSize + 1) |->
        IF i <= CrowdSize THEN <<"a", CrowdChars[i]>> \o CrowdTail
        ELSE <<"b", "0">> \o CrowdTail]

Reverse(s) == [i \in 1..Len(s) |-> s[Len(s) + 1 - i]]

CrowdFeeds ==
    LET picks == {Pick(CrowdBase, I) : I \in SUBSET (1..Len(CrowdBase)) \ {{}}}
    IN  picks \cup {Reverse(f) : f \in picks}

CrowdInputs == {<<"a">>, <<"a", " ">>, <<"a", "0">>, <<"b">>, <<"c">>}

InitCrowd ==
    /\ InitFiles
    /\ stateFile = NoState
    /\ rIn \in [shas : CrowdFeeds, input : CrowdInputs]
    /\ rOut = NotResolved
    /\ cIn = NoCollect
    /\ cOut = NotCollected
    /\ ui = UiLoaded
    /\ hIn = NoRequest
    /\ hOut = NotHandled

SpecCrowd == InitCrowd /\ [][NextResolve]_vars

\* The feed entries that start with the identifier, in feed order.
MatchingMarkers(shas, id) == SelectSeq(shas, LAMBDA m : IsPrefix(id, m))

\* C11 as written: an AmbiguousIdentifier failure reports the number of
\* feed markers that start with the identifier and a sample of at most
\* MaxSample candidates, each of them one of those markers, in feed order.
C11_AsWritten ==
    (rOut.called /\ rOut.res.err = "AmbiguousIdentifier") =>
        LET m == MatchingMarkers(rIn.shas, Core(rIn.input))
            sample == rOut.res.sample
        IN  /\ rOut.res.count = Len(m)
            /\ Len(sample) <= MaxSample
            /\ Len(sample) <= Len(m)
            /\ \A k \in 1..Len(sample) : sample[k] = m[k]

\* C11: an AmbiguousIdentifier failure reports the number of feed markers
\* that start with the (trimmed) identifier and a sample of at most
\* MaxSample candidates: the abbreviated ids (first ShortShaLen characters)
\* of the first matching markers, in feed order.
C11_SampleOfAbbreviatedMatches ==
    (rOut.called /\ rOut.res.err = "AmbiguousIdentifier") =>
        LET m == MatchingMarkers(rIn.shas, Core(rIn.input))
            sample == rOut.res.sample
        IN  /\ rOut.res.count = Len(m)
            /\ Len(m) > 1
            /\ Len(sample) <= MaxSample
            /\ Len(sample) = Min(MaxSample, Len(m))
            /\ \A k \in 1..Len(sample) :
                  /\ Len(sample[k]) = Min(ShortShaLen, Len(m[k]))
                  /\ IsPrefix(sample[k], m[k])

\* C11 witness: an ambiguity with more matching markers than the sample
\* holds.
C11_Witness ==
    /\ rOut.called
    /\ rOut.res.err = "AmbiguousIdentifier"
    /\ rOut.res.count > MaxSample
    /\ Len(rOut.res.sample) = MaxSample

(***************************************************************************)
(* Properties of the range a run works on (Spec).                          *)
(***************************************************************************)
\* The run has fixed both ends of its range.
HasRange(r) == r.buildSha # <<>> /\ r.previousSha # <<>>

\* C12: without a previous-marker override the from boundary of the range
\* is the feed entry right after the target (index of target + 1); with an
\* override it is what the resolution rule gives for the override on the
\* same feed.  A run that goes on to compare has such a boundary.
C12_FromBoundary ==
    /\ HasRange(R) =>
          IF R.previousArg = <<>>
          THEN /\ IndexOf(R.feed, R.buildSha) + 2 <= Len(R.feed)
               /\ R.previousSha = R.feed[IndexOf(R.feed, R.buildSha) + 2]
          ELSE ResolvesAsRuled(R.feed, Core(R.previousArg),
                               [ok |-> TRUE, sha |-> R.previousSha, err |-> ""])
    /\ R.pc \in {"begun", "gathered", "done", "skipped"} => HasRange(R)
    /\ R.pc \in {"gathered", "done"} =>
          R.md.from = R.previousSha /\ R.md.to = R.buildSha

\* C12 witness: a run with the default boundary has compared and collected.
C12_Witness ==
    /\ R.pc = "gathered"
    /\ R.previousArg = <<>>
    /\ Called(R, "compare")
    /\ R.md.from = R.feed[IndexOf(R.feed, R.buildSha) + 2]

\* The run made no write to the state file, the pages or the indexes.
NoWrite(r) ==
    /\ ~Called(r, "writePage")
    /\ ~Called(r, "writeState")
    /\ ~Called(r, "rebuildIndexes")

\* C13: when the target is the last (oldest) entry of the feed and no
\* previous-marker override is given, the run fails with NoPreviousMarker
\* and has written nothing: state file, pages and indexes are untouched.
C13_OldestTargetFails ==
    (/\ R.feed # <<>>
     /\ R.buildSha = R.feed[Len(R.feed)]
     /\ R.previousArg = <<>>) =>
        /\ R.pc = "failed"
        /\ R.error = "NoPreviousMarker"
        /\ NoWrite(R)
        /\ stateFile = R.state

\* C13 witness: a run for the oldest feed entry has failed.
C13_Witness ==
    /\ R.pc = "failed"
    /\ R.error = "NoPreviousMarker"
    /\ R.buildSha = R.feed[Len(R.feed)]

\* C14: every range a run passes to the compare call, with the default from
\* boundary or an override, has from strictly later (older) in the feed than
\* to, both being feed entries.
C14_FromOlderThanTo ==
    Called(R, "compare") => OlderInFeed(R.feed, R.previousSha, R.buildSha)

(***************************************************************************)
(* More properties of collectMergedPullRequestsForRange (SpecCollect).     *)
(***************************************************************************)
\* The changes that the commits looked up without failure refer to.
Referenced(commits, failC) ==
    UNION {Range(PullsOf(c)) : c \in Range(commits) \ ({0} \cup failC)}

\* C15: every change returned has a merge timestamp; a change that a commit
\* of the range refers to but that is not merged is not in the result.
C15_OnlyMergedChanges ==
    cOut.called =>
        /\ \A i \in 1..Len(cOut.prs) : MergedAtOf(cOut.prs[i]) # 0
        /\ \A n \in Referenced(cIn.commits, cIn.failC) :
              MergedAtOf(n) = 0 => n \notin Range(cOut.prs)

\* C15 witness: a commit looked up without failure refers to a change that
\* is not merged and to one that is, and the latter is returned.
C15_Witness ==
    /\ cOut.called
    /\ cOut.prs # <<>>
    /\ \E n \in Referenced(cIn.commits, cIn.failC) :
          n \notin cIn.failP /\ MergedAtOf(n) = 0

\* C16: the list returned is sorted by merge timestamp descending, and two
\* changes with the same merge timestamp are in descending order of number.
C16_SortedTiesByNumber ==
    cOut.called =>
        \A i, j \in 1..Len(cOut.prs) :
            i < j =>
                \/ MergedAtOf(cOut.prs[i]) > MergedAtOf(cOut.prs[j])
                \/ /\ MergedAtOf(cOut.prs[i]) = MergedAtOf(cOut.prs[j])
                   /\ cOut.prs[i] > cOut.prs[j]

(***************************************************************************)
(* SpecLookup: the runs of Spec, with the pull-request lookup of the last  *)
(* commit of each range failing, up to the first run that writes a page.   *)
(***************************************************************************)
NextLookup ==
    \/ FeedPublish
    \/ Begin(1) /\ pages = <<>>
    \/ Gather(1, {0}, {TRUE}, {"last"})
    \/ Write(1)
    \/ Exit(1)

SpecLookup == Init /\ [][NextLookup]_vars

\* The merged changes that the commits of the run's range refer to, the
\* commits whose lookup failed left out.
ChangesOfOthers(r) ==
    {n \in Referenced(CompareCommits(r.previousSha, r.buildSha, 0), r.failC) :
        MergedAtOf(n) # 0}

C18_NoGenerationWithoutChanges ==
    /\ Called(R, "openai") => R.nprs > 0
    /\ (Called(R, "collect") /\ R.nprs = 0) =>
          /\ ~Called(R, "writePrompts")
          /\ ~Called(R, "openai")
          /\ R.pc = "failed"
          /\ R.error \in {"EmptyInput", "NoApiKey"}
          /\ NoWrite(R)
          /\ stateFile = R.state

\* C18 witness: a run with an empty collection was refused.
C18_Witness ==
    /\ R.pc = "failed"
    /\ R.error = "EmptyInput"
    /\ Called(R, "collect")
    /\ R.nprs = 0

\* The slug of the page of target t (line 745).
SlugOfTarget(t) == SlugOf(DateOf(BuildOf(t)), VersionOf(BuildOf(t)), t)

C21_OneOutcome ==
    /\ R.error # "" <=> R.pc = "failed"
    /\ R.pc = "failed" => R.status # 0
    /\ R.pc \in {"done", "skipped"} => R.status = 0
    /\ \A i, j \in 1..Len(R.trace) : i # j => R.trace[i] # R.trace[j]

\* C21 witness: a run for an identifier that is not in the feed has ended
\* with a non-zero status.
C21_Witness ==
    /\ R.pc = "failed"
    /\ R.error = "NotFound"
    /\ R.status = 1


BeginOverlap(p) ==
    /\ Begin(p)
    /\ ~run'[p].preview
    /\ run'[p].previousArg = <<>>
    /\ run'[p].pc = "begun"
    /\ ~run'[p].force

NextOverlap ==
    \/ \E p \in Procs : BeginOverlap(p)
    \/ \E p \in Procs : Gather(p, {0}, {TRUE}, {"none"})
    \/ \E p \in Procs : Write(p)

SpecOverlap == Init /\ [][NextOverlap]_vars

\* The marker a run read at its start is absent or older than its target.
ReadOlder(r) ==
    r.state.sha = <<>> \/ BuildOf(r.state.sha) < BuildOf(r.buildSha)

\* C23: runs may overlap, and a run writes the marker from the state it
\* read at its start: when another run has meanwhile persisted a newer
\* marker, the run for the older target that writes last moves the
\* persisted marker back to its own target.
C23_LostUpdate ==
    [][\A p \in Procs :
          (/\ run[p].pc = "gathered"
           /\ run'[p].pc = "done"
           /\ ReadOlder(run[p])
           /\ stateFile.sha # <<>>
           /\ BuildOf(stateFile.sha) > BuildOf(run[p].buildSha))
             => /\ stateFile'.sha = run[p].buildSha
                /\ BuildOf(stateFile'.sha) < BuildOf(stateFile.sha)]_vars

\* C23 witness: two runs read the same state before either wrote it, both
\* succeeded, and the marker is the older target while the newer target
\* had been persisted.
C23_Witness ==
    /\ Succeeded(run[1])
    /\ Succeeded(run[2])
    /\ run[1].state = run[2].state
    /\ ReadOlder(run[1])
    /\ ReadOlder(run[2])
    /\ BuildOf(run[2].buildSha) < BuildOf(run[1].buildSha)
    /\ run[1].buildSha \in processed
    /\ stateFile.sha = run[2].buildSha


(***************************************************************************)
(* Runs whose compare call may return the range without its last commit    *)
(* and may report no numeric total_commits (lines 721-724).  Runs start    *)
(* while docs/builds is empty.                                             *)
(***************************************************************************)
NextTruncated ==
    \/ FeedPublish
    \/ Begin(1) /\ pages = <<>>
    \/ Gather(1, {0, 1}, BOOLEAN, {"none"})
    \/ Write(1)
    \/ Exit(1)

SpecTruncated == Init /\ [][NextTruncated]_vars

\* The compare call of the run reported a numeric total greater than the
\* number of commits it returned.
MoreThanReturned(r) ==
    r.compare.hasTotal /\ r.compare.total_commits > r.compare.commits

\* C24: the page a run generates carries the truncation warning exactly when
\* the compare call reported a numeric total greater than the number of
\* commits it returned, and so does the page it writes; without a numeric
\* total there is no warning.
C24_TruncatedIffTotalGreater ==
    /\ R.pc \in {"gathered", "done"} =>
          /\ R.md.warning <=> MoreThanReturned(R)
          /\ ~R.compare.hasTotal => ~R.md.warning
    /\ Succeeded(R) =>
          (pages[SlugOfTarget(R.buildSha)].warning <=> MoreThanReturned(R))

\* C24 witness: a successful run wrote a page with the warning after a
\* compare call that returned fewer commits than its total.
C24_Witness ==
    /\ Succeeded(R)
    /\ R.compare.hasTotal
    /\ R.compare.total_commits > R.compare.commits
    /\ pages[SlugOfTarget(R.buildSha)].warning


\* C25: in the state record a successful run leaves, having found no marker
\* or the marker of a successfully processed build, the display version is
\* the version derived for the build that the marker names; a forced
\* reprocess of an older build does not pair the newer marker with the
\* older build's version.
C25_VersionOfMarker ==
    (Succeeded(R) /\ (R.state.sha = <<>> \/ R.state.sha \in processed))
        => stateFile.version = VersionOf(BuildOf(stateFile.sha))


MarkerOffFeed(r) ==
    /\ r.feed # <<>>
    /\ r.state.sha # <<>>
    /\ IndexOf(r.feed, r.state.sha) = -1

\* C27: a run that finds a persisted marker absent from the feed it
\* observes is not skipped, forced or not, and when it succeeds the
\* persisted marker is its target.
C27_MarkerOffFeedIsProcessed ==
    MarkerOffFeed(R) =>
        /\ R.pc # "skipped"
        /\ Succeeded(R) => stateFile.sha = R.buildSha

\* C27 witness: an unforced run found a marker absent from its feed and
\* succeeded, leaving its target as the marker.
C27_Witness ==
    /\ MarkerOffFeed(R)
    /\ ~R.force
    /\ Succeeded(R)
    /\ stateFile.sha = R.buildSha


(***************************************************************************)
(* Runs with --out (line 763): a preview run writes its page text to the   *)
(* path given, which may be a file of docs/builds (here the page of the    *)
(* newest build of the first feed).  --out is given to                     *)
(* preview runs only (other runs do not read it), and runs that are not    *)
(* previews start while docs/builds is empty.                              *)
(***************************************************************************)
OutPaths ==
    {NoOut,
     [given |-> TRUE, inBuilds |-> FALSE, slug |-> NoSlug],
     [given |-> TRUE, inBuilds |-> TRUE,
      slug |-> SlugOf(DateOf(FeedWindow), VersionOf(FeedWindow), IdOf(FeedWindow))]}

BeginPreview(p) ==
    /\ BeginWith(p, OutPaths)
    /\ run'[p].preview \/ (pages = <<>> /\ ~run'[p].outPath.given)

NextPreview ==
    \/ BeginPreview(1)
    \/ Gather(1, {0}, {TRUE}, {"none"})
    \/ Write(1)
    \/ Exit(1)

SpecPreview == Init /\ [][NextPreview]_vars

\* A step of a preview run: it starts the run or carries it on.
PreviewStep == run'[1].preview /\ run'[1].pc # "idle"

RemoveAt(s, i) == SubSeq(s, 1, i - 1) \o SubSeq(s, i + 1, Len(s))

\* The user picks a run in the selector: the listener reads the selector's
\* value and calls loadRun, which starts the fetch.
SelectRun ==
    /\ ui.loads < MaxLoads
    /\ \E path \in RunPaths :
          ui' = [ui EXCEPT !.selected = path,
                           !.inflight = Append(@, path),
                           !.loads = @ + 1]
    /\ UNCHANGED <<feed, stateFile, pages, index, run, processed, rIn, rOut, cIn, cOut, hIn, hOut>>

\* A fetch in flight succeeds: state.run is set to its data and the list is
\* rendered from it (lines 150-157).
LoadCompletes ==
    /\ \E i \in 1..Len(ui.inflight) :
          ui' = [ui EXCEPT !.run = ui.inflight[i],
                           !.list = ui.inflight[i],
                           !.inflight = RemoveAt(@, i)]
    /\ UNCHANGED <<feed, stateFile, pages, index, run, processed, rIn, rOut, cIn, cOut, hIn, hOut>>

\* A fetch in flight fails: loadJson throws (line 29) and loadRun changes
\* nothing.
LoadFails ==
    /\ \E i \in 1..Len(ui.inflight) :
          ui' = [ui EXCEPT !.inflight = RemoveAt(@, i), !.rejected = TRUE]
    /\ UNCHANGED <<feed, stateFile, pages, index, run, processed, rIn, rOut, cIn, cOut, hIn, hOut>>

NextUi == SelectRun \/ LoadCompletes \/ LoadFails

SpecUi == Init /\ [][NextUi]_vars

\* C29: when every load started by a selector change has completed, none
\* having failed, the run in state.run and in the rendered list is the run
\* the selector shows, whatever order the fetches completed in.
C29_SelectedRunShown ==
    (ui.inflight = <<>> /\ ~ui.rejected) =>
        (ui.run = ui.selected /\ ui.list = ui.selected)


(***************************************************************************)
(* scripts/preview.mjs: safePath (20-24) and the request handler (26-60).  *)
(* A URL is a sequence of pieces: "/", ".", "?", a letter, the word data,  *)
(* the escape %2e (a dot) and a lone %, which decodeURIComponent rejects.  *)
(* The request carries what the file system holds: whether dist/index.html *)
(* exists, what stat finds at the requested path (found), and whether a    *)
(* directory found there has an index.html.                                *)
(***************************************************************************)
MaxUrlLen == 3

UrlChars == {"/", ".", "a", "?", "%2e", "%", "data"}

\* A request target starts with "/".
Urls == {<<"/">> \o t : t \in SeqsUpTo(UrlChars, MaxUrlLen)}

Requests ==
    [url : Urls, indexExists : BOOLEAN,
     found : {"file", "dir", "none"}, dirIndex : BOOLEAN]

\* urlPath.split("?")[0]
BeforeQuery(s) ==
    IF \E i \in 1..Len(s) : s[i] = "?"
    THEN SubSeq(s, 1, (CHOOSE i \in 1..Len(s) :
                          s[i] = "?" /\ \A j \in 1..(i - 1) : s[j] # "?") - 1)
    ELSE s

\* decodeURIComponent: throws on a lone %, turns %2e into a dot.
Malformed(s) == \E i \in 1..Len(s) : s[i] = "%"

decodeURIComponent(s) == [i \in 1..Len(s) |-> IF s[i] = "%2e" THEN "." ELSE s[i]]

\* decoded.replace(/^\/+/, "")
RECURSIVE StripSlashes(_)
StripSlashes(s) ==
    IF s # <<>> /\ s[1] = "/" THEN StripSlashes(Tail(s)) ELSE s

\* rel.includes("..")
IncludesDotDot(s) == \E i \in 1..(Len(s) - 1) : s[i] = "." /\ s[i + 1] = "."

\* safePath: threw when decodeURIComponent throws, else null or rel.
safePath(urlPath) ==
    LET first == BeforeQuery(urlPath)
        raw == IF first = <<>> THEN <<"/">> ELSE first
        rel == StripSlashes(decodeURIComponent(raw))
    IN  IF Malformed(raw) THEN [threw |-> TRUE, null |-> FALSE, rel |-> <<>>]
        ELSE IF IncludesDotDot(rel) THEN [threw |-> FALSE, null |-> TRUE, rel |-> <<>>]
        ELSE [threw |-> FALSE, null |-> FALSE, rel |-> rel]

Response(status, body) == [called |-> TRUE, status |-> status, body |-> body]

\* The handler: !rel is true of null and of the empty string.
handler(req) ==
    LET p == safePath(req.url)
        rel == p.rel
        requested == IF rel = <<>> THEN <<"index.html">> ELSE rel
        found == IF requested = <<"index.html">>
                 THEN (IF req.indexExists THEN "file" ELSE "none")
                 ELSE req.found
        fallback == /\ \A i \in 1..Len(requested) : requested[i] # "."
                    /\ ~StartsWith(requested, <<"data", "/">>)
    IN  IF p.threw THEN Response(500, "error")
        ELSE IF p.null \/ rel = <<>> THEN Response(400, "Bad request")
        ELSE IF found = "file" THEN Response(200, "requested")
        ELSE IF found = "dir"
             THEN IF req.dirIndex THEN Response(200, "requested/index.html")
                  ELSE Response(500, "error")
        ELSE IF fallback
             THEN IF req.indexExists THEN Response(200, "index.html")
                  ELSE Response(500, "error")
        ELSE Response(404, "Not found")

InitServe ==
    /\ InitFiles
    /\ stateFile = NoState
    /\ rIn = NoCall
    /\ rOut = NotResolved
    /\ cIn = NoCollect
    /\ cOut = NotCollected
    /\ ui = UiLoaded
    /\ hIn \in Requests
    /\ hOut = NotHandled

Serve ==
    /\ ~hOut.called
    /\ hOut' = handler(hIn)
    /\ UNCHANGED <<feed, stateFile, pages, index, run, processed, rIn, rOut, cIn, cOut, ui, hIn>>

NextServe == Serve

SpecServe == InitServe /\ [][NextServe]_vars

\* The request is for the root path "/" (with or without a query).
IsRoot(url) == BeforeQuery(url) = <<"/">>

\* C30: a request for the root path "/" is answered with dist/index.html
\* and status 200 when that file exists, and a request is rejected with 400
\* only when its decoded path contains "..".
C30_RootServed ==
    hOut.called =>
        /\ (IsRoot(hIn.url) /\ hIn.indexExists)
              => (hOut.status = 200 /\ hOut.body = "index.html")
        /\ hOut.status = 400
              => IncludesDotDot(decodeURIComponent(BeforeQuery(hIn.url)))

====
